---- MODULE Spec2Model ----
(***************************************************************************)
(* A model of the search core of SWE_API: the branch-coverage fitness      *)
(* evaluator (fitness_evaluator.py) and the genetic operators              *)
(* (genetic_engine.py).                                                    *)
(*                                                                         *)
(* Numbers.  Python floats are modelled as exact rationals.  A fitness     *)
(* score before rounding is kept as a numerator over the denominator       *)
(* 10 * total_branches; round(x, 4) yields an integer number of            *)
(* ten-thousandths (fitness_score = 6000 stands for 0.6) and round(x, 2)   *)
(* an integer number of hundredths.                                        *)
(***************************************************************************)
EXTENDS Integers, Sequences, FiniteSets, TLC

(***************************************************************************)
(* Bounds of the model.                                                    *)
(***************************************************************************)
\* the CFG has 0..MaxEdges distinct edges, named 1..n
MaxEdges == 3
\* the branch identifiers execution outcomes report; with edge sets 1..n they
\* lie inside the universe for n >= 2 and partly outside it for n < 2
BranchIds == {1, 2}
\* lists of arbitrary (candidate, outcome) pairs have at most MaxPairs entries
MaxPairs == 2
\* lists of identical outcomes have at most MaxIdentical entries
MaxIdentical == 5
\* a population handed to tournament_selection has 0..MaxPopulation members
MaxPopulation == 4
\* their fitness scores are drawn from 0..MaxFitness
MaxFitness == 2
\* a parent handed to crossover has 0..MaxGenes genes
MaxGenes == 3

VARIABLES
    \* FitnessEvaluator.all_branches: the branch universe, fixed at construction
    all_branches,
    \* FitnessEvaluator.global_covered_branches
    global_covered_branches,
    \* the caller's list of (test_case_id, execution_result) pairs under assembly
    test_results,
    \* the last call on the evaluator: its arguments and what it returned
    fit_call,
    \* the genetic operator under call: "tournament_selection", "crossover"
    ga_fn,
    \* the list passed to tournament_selection
    population,
    \* the Chromosome objects passed to crossover
    p1,
    p2,
    \* what the genetic operator returned or raised
    ga_ret,
    \* whether the caller lets one calculate_fitness call finish before the
    \* next starts (a single writer), or runs the calls on free threads
    serialized,
    \* the calculate_fitness calls in progress on one evaluator, per thread
    threads,
    \* the evaluator's global coverage set when those calls were started
    global_at_start,
    \* the parameter type tags the chromosome passed to mutate was created from
    param_types,
    \* the Chromosome object passed to mutate, which mutate writes in place
    chromosome,
    \* the genes of that object when mutate was called
    genes_at_call,
    \* the rate passed to mutate, in tenths
    rate,
    \* what mutate returned or raised
    mutate_ret,
    \* stored_cfgs[cfg_id].required_inputs of the one stored configuration
    required_inputs,
    \* the Chromosome objects created so far; a position is an object identity
    heap,
    \* active_populations[cfg_id]: the stored PopulationOutput
    active_population,
    \* the request under way on the /ga endpoints and the position in it
    ga_request,
    \* the local list next_gen of evolve_population, as object identities
    next_gen,
    \* the number of identifiers uuid4 has handed out
    uuid_count,
    \* the test results passed to TarantulaLocalizer.analyze
    fl_test_results,
    \* TarantulaLocalizer.line_coverage, in insertion order
    line_coverage,
    \* what analyze returned
    fl_output,
    \* the analyze calls made on the localizer so far
    fl_calls,
    \* the arguments and the result of the first of them
    fl_first,
    \* the call of calculate_ochiai_score or calculate_jaccard_score under way
    metric_call,
    \* what that call returned
    metric_ret,
    \* the analysis and top_n passed to generate_report
    report_analysis,
    report_top_n,
    \* the ReportOutput it returned
    report_out,
    \* database.test_executions: the stored execution results, by test id
    test_executions,
    \* database.fault_analyses: the stored analyses
    fault_analyses,
    \* the test_ids of the request on /fault-localization/analyze-from-executions
    endpoint_request,
    \* the response to it
    endpoint_response

fitness_vars == <<all_branches, global_covered_branches, test_results, fit_call>>
ga_vars == <<ga_fn, population, p1, p2, ga_ret>>
thread_vars == <<serialized, threads, global_at_start>>
mutate_vars == <<param_types, chromosome, genes_at_call, rate, mutate_ret>>
evolve_vars == <<required_inputs, heap, active_population, ga_request,
                 next_gen, uuid_count>>
fl_vars == <<fl_test_results, line_coverage, fl_output, fl_calls, fl_first>>
metric_vars == <<metric_call, metric_ret>>
report_vars == <<report_analysis, report_top_n, report_out>>
endpoint_vars == <<test_executions, fault_analyses, endpoint_request,
                   endpoint_response>>
more_vars == <<metric_vars, report_vars, endpoint_vars>>
ext_vars == <<mutate_vars, evolve_vars, fl_vars, more_vars>>
vars == <<fitness_vars, ga_vars, thread_vars, ext_vars>>

(***************************************************************************)
(* Arithmetic helpers.                                                     *)
(***************************************************************************)
Max2(a, b) == IF a >= b THEN a ELSE b
Min2(a, b) == IF a <= b THEN a ELSE b

\* floor(num / den) for den > 0 and any integer num
FloorDiv(num, den) == num \div den

\* Python's round() on a value num/den that a decimal scaling has already
\* been applied to: nearest integer, an exact tie going to the even one.
round_half_even(num, den) ==
    LET q == FloorDiv(num, den)
        r == num - q * den
    IN  IF 2 * r < den THEN q
        ELSE IF 2 * r > den THEN q + 1
        ELSE IF q % 2 = 0 THEN q ELSE q + 1

\* round() of a float computed by a division: when the exact quotient is a
\* tie the double nearest to it lies on either side, so both neighbours are
\* possible results; otherwise the result is the nearest integer.
round_float(num, den) ==
    LET q == FloorDiv(num, den)
        r == num - q * den
    IN  IF 2 * r = den THEN {q, q + 1} ELSE {round_half_even(num, den)}

RECURSIVE SeqSum(_)
SeqSum(s) == IF s = <<>> THEN 0 ELSE Head(s) + SeqSum(Tail(s))

RECURSIVE SeqMax(_)
SeqMax(s) ==
    IF Len(s) = 1 THEN Head(s) ELSE Max2(Head(s), SeqMax(Tail(s)))

(***************************************************************************)
(* Inputs of the evaluator.                                                *)
(***************************************************************************)
ExecutionStatus == {"passed", "failed", "error"}

\* TestExecutionOutput, reduced to the two fields the evaluator reads.
\* branches_taken is given as the set of its distinct identifiers: line 46
\* turns the list into a set before anything else reads it.
Outcomes ==
    [branches_taken : SUBSET BranchIds, execution_status : ExecutionStatus]

\* CFGOutput.edges as the set of their distinct "source->target" names
EdgeSets == {1 .. n : n \in 0 .. MaxEdges}

(***************************************************************************)
(* FitnessEvaluator.calculate_fitness                                      *)
(***************************************************************************)
_extract_all_branches(edges) == edges

\* mutant: every covered branch counts as new
new_branches_all(covered_branches, global) == covered_branches

new_branches_of(covered_branches, global) == covered_branches \ global

\* mutant: the update replaces the set instead of adding to it
global_update_replaces(global, new_branches) == new_branches

global_update(global, new_branches) == global \cup new_branches

total_branches_of(all) == IF all # {} THEN Cardinality(all) ELSE 1

\* numerator of coverage_percentage * 100 over the denominator total
coverage_percentage_of(covered_branches, total) ==
    round_half_even(Cardinality(covered_branches) * 10000, total)

\* mutant: no novelty bonus
novelty_bonus_none(new_branches) == 0

novelty_bonus(new_branches) ==
    IF new_branches # {} THEN 2 * Cardinality(new_branches) ELSE 0

\* mutant: every status other than "passed" is penalised
failure_penalty_not_passed(status, total) == IF status # "passed" THEN total ELSE 0

failure_penalty(status, total) == IF status = "failed" THEN total ELSE 0

\* fitness_score before normalisation, as a numerator over 10 * total
raw_fitness(covered_branches, new_branches, status, total) ==
    10 * Cardinality(covered_branches) + novelty_bonus(new_branches)
        - failure_penalty(status, total)

\* mutant: the score is not clamped
normalize_missing(num, den) == num

\* max(0.0, min(1.0, fitness_score)) on a numerator over den
normalize(num, den) == Max2(0, Min2(den, num))

\* The BranchCoverageResult of one call with global set `global` before it.
\* new_branches is the local of that name, kept for the claims.
calculate_fitness(test_case_id, execution_result, global, all) ==
    LET covered_branches == execution_result.branches_taken
        new_branches == new_branches_of(covered_branches, global)
        total == total_branches_of(all)
        score == normalize(
                     raw_fitness(covered_branches, new_branches,
                                 execution_result.execution_status, total),
                     10 * total)
    IN  [test_case_id |-> test_case_id,
         branches_covered |-> covered_branches,
         total_branches |-> total,
         coverage_percentage |-> coverage_percentage_of(covered_branches, total),
         fitness_score |-> round_half_even(score * 10000, 10 * total),
         new_branches |-> new_branches]

(***************************************************************************)
(* FitnessEvaluator.evaluate_population                                    *)
(***************************************************************************)
\* mutant: every pair is evaluated against the global set of before the call
evaluate_loop_stale(pairs, global, all, acc) ==
    [results |-> acc \o [i \in 1 .. Len(pairs) |->
                            calculate_fitness(pairs[i].test_case_id,
                                              pairs[i].execution_result,
                                              global, all)],
     global |-> global \cup UNION {pairs[i].execution_result.branches_taken :
                                       i \in 1 .. Len(pairs)}]

\* the for loop of lines 95-97: results so far in acc, global set in global
RECURSIVE evaluate_loop(_, _, _, _)
evaluate_loop(pairs, global, all, acc) ==
    IF pairs = <<>>
    THEN [results |-> acc, global |-> global]
    ELSE LET result == calculate_fitness(Head(pairs).test_case_id,
                                         Head(pairs).execution_result,
                                         global, all)
         IN  evaluate_loop(Tail(pairs),
                           global_update(global, result.new_branches),
                           all, Append(acc, result))

fitness_scores_of(results) == [i \in 1 .. Len(results) |-> results[i].fitness_score]

best_fitness_of(fitness_scores) ==
    IF fitness_scores # <<>> THEN SeqMax(fitness_scores) ELSE 0

\* round(sum / len, 4): every value the rounding can produce
avg_fitness_of(fitness_scores) ==
    IF fitness_scores # <<>>
    THEN round_float(SeqSum(fitness_scores), Len(fitness_scores))
    ELSE {0}

NoCall ==
    [op |-> "none", input |-> <<>>, global_before |-> {}, results |-> <<>>,
     evaluated_count |-> 0, best_fitness |-> 0, avg_fitness |-> 0]

InitFitness ==
    /\ all_branches \in {_extract_all_branches(e) : e \in EdgeSets}
    /\ global_covered_branches = {}
    /\ test_results = <<>>
    /\ fit_call = NoCall

\* one direct call of calculate_fitness(test_case_id, execution_result), made
\* while the caller has no list under assembly
CalculateFitness ==
    \E execution_result \in Outcomes :
        LET result == calculate_fitness(0, execution_result,
                                        global_covered_branches, all_branches)
        IN  /\ test_results = <<>>
            /\ global_covered_branches' =
                   global_update(global_covered_branches, result.new_branches)
            /\ fit_call' =
                   [op |-> "calculate_fitness",
                    input |-> <<[test_case_id |-> 0,
                                 execution_result |-> execution_result]>>,
                    global_before |-> global_covered_branches,
                    results |-> <<result>>,
                    evaluated_count |-> 1,
                    best_fitness |-> 0, avg_fitness |-> 0]
            /\ UNCHANGED <<all_branches, test_results>>
            /\ UNCHANGED <<ga_vars, thread_vars, ext_vars>>

\* the lists the caller assembles: any pairs up to MaxPairs, or one outcome
\* repeated up to MaxIdentical times
AllowedList(list) ==
    \/ Len(list) <= MaxPairs
    \/ /\ Len(list) <= MaxIdentical
       /\ \A i \in 1 .. Len(list) :
              list[i].execution_result = list[1].execution_result

\* the caller appends (individual.id, execution_result) to test_results; what
\* the previous call returned is no longer referenced
AppendTestResult ==
    \E execution_result \in Outcomes :
        LET pair == [test_case_id |-> Len(test_results) + 1,
                     execution_result |-> execution_result]
        IN  /\ AllowedList(Append(test_results, pair))
            /\ test_results' = Append(test_results, pair)
            /\ fit_call' = NoCall
            /\ UNCHANGED <<all_branches, global_covered_branches>>
            /\ UNCHANGED <<ga_vars, thread_vars, ext_vars>>

\* evaluate_population(cfg_id, test_results)
EvaluatePopulation ==
    LET done == evaluate_loop(test_results, global_covered_branches,
                              all_branches, <<>>)
        fitness_scores == fitness_scores_of(done.results)
    IN  \E avg \in avg_fitness_of(fitness_scores) :
            /\ global_covered_branches' = done.global
            /\ fit_call' =
                   [op |-> "evaluate_population",
                    input |-> test_results,
                    global_before |-> global_covered_branches,
                    results |-> done.results,
                    evaluated_count |-> Len(done.results),
                    best_fitness |-> best_fitness_of(fitness_scores),
                    avg_fitness |-> avg]
            /\ test_results' = <<>>
            /\ UNCHANGED all_branches
            /\ UNCHANGED <<ga_vars, thread_vars, ext_vars>>

NextFitness == CalculateFitness \/ AppendTestResult \/ EvaluatePopulation

(***************************************************************************)
(* genetic_engine.py: Chromosome objects and the operators on them.        *)
(***************************************************************************)
GeneValues == {0, 1}

FitnessValues == 0 .. MaxFitness

GeneLists == UNION {[1 .. n -> GeneValues] : n \in 0 .. MaxGenes}

\* Chromosome(id, genes, fitness_score)
Chromosome(id, genes, fitness_score) ==
    [id |-> id, genes |-> genes, fitness_score |-> fitness_score]

NoChromosome == Chromosome("none", <<>>, 0)

\* populations as the unit test builds them: member i has id i and genes [i]
Populations ==
    UNION {{[i \in 1 .. n |-> Chromosome(i, <<i>>, f[i])] :
                f \in [1 .. n -> FitnessValues]} : n \in 0 .. MaxPopulation}

Parents(id) ==
    {Chromosome(id, genes, f) : genes \in GeneLists, f \in FitnessValues}

\* str(uuid.uuid4())[:8]
UuidValues == {"u1", "u2"}

Pending ==
    [status |-> "pending", error |-> "", object |-> "none", index |-> 0,
     value |-> NoChromosome, point |-> 0]

\* the call returned `value`, which is the object `object` ("member": the
\* population member at `index`; "p1"; "new": an object the call created)
ReturnedObject(object, index, value, point) ==
    [status |-> "returned", error |-> "", object |-> object, index |-> index,
     value |-> value, point |-> point]

Raised(error) ==
    [status |-> "raised", error |-> error, object |-> "none", index |-> 0,
     value |-> NoChromosome, point |-> 0]

\* k = 3
TournamentSize == 3

\* min(k, len(population))
sample_size(n) == Min2(TournamentSize, n)

\* random.sample(population, k): k distinct positions, in any order
Samples(n, k) ==
    {c \in [1 .. k -> 1 .. n] : \A i, j \in 1 .. k : i # j => c[i] # c[j]}

\* mutant: the competitor with the lowest fitness wins
py_min(competitors, pop) ==
    IF competitors = <<>>
    THEN Raised("ValueError")
    ELSE LET first == CHOOSE i \in 1 .. Len(competitors) :
                 /\ \A j \in 1 .. Len(competitors) :
                        pop[competitors[j]].fitness_score
                            >= pop[competitors[i]].fitness_score
                 /\ \A j \in 1 .. (i - 1) :
                        pop[competitors[j]].fitness_score
                            > pop[competitors[i]].fitness_score
         IN  ReturnedObject("member", competitors[first],
                            pop[competitors[first]], 0)

\* mutant: an empty sequence yields a default object instead of an error
py_max_default(competitors, pop) ==
    IF competitors = <<>>
    THEN ReturnedObject("new", 0, NoChromosome, 0)
    ELSE LET first == CHOOSE i \in 1 .. Len(competitors) :
                 /\ \A j \in 1 .. Len(competitors) :
                        pop[competitors[j]].fitness_score
                            <= pop[competitors[i]].fitness_score
                 /\ \A j \in 1 .. (i - 1) :
                        pop[competitors[j]].fitness_score
                            < pop[competitors[i]].fitness_score
         IN  ReturnedObject("member", competitors[first],
                            pop[competitors[first]], 0)

\* max(competitors, key=lambda c: c.fitness_score): the first competitor of
\* maximal fitness; ValueError on an empty sequence
py_max(competitors, pop) ==
    IF competitors = <<>>
    THEN Raised("ValueError")
    ELSE LET first == CHOOSE i \in 1 .. Len(competitors) :
                 /\ \A j \in 1 .. Len(competitors) :
                        pop[competitors[j]].fitness_score
                            <= pop[competitors[i]].fitness_score
                 /\ \A j \in 1 .. (i - 1) :
                        pop[competitors[j]].fitness_score
                            < pop[competitors[i]].fitness_score
         IN  ReturnedObject("member", competitors[first],
                            pop[competitors[first]], 0)

\* tournament_selection(population)
tournament_selection ==
    /\ ga_fn = "tournament_selection"
    /\ ga_ret = Pending
    /\ \E competitors \in Samples(Len(population), sample_size(Len(population))) :
           ga_ret' = py_max(competitors, population)
    /\ UNCHANGED <<ga_fn, population, p1, p2>>
    /\ UNCHANGED <<fitness_vars, thread_vars, ext_vars>>

\* a[:point] and a[point:] of a Python list
slice_to(a, point) == SubSeq(a, 1, Min2(point, Len(a)))
slice_from(a, point) == SubSeq(a, point + 1, Len(a))

\* mutant: the second parent's slice starts one gene late
new_genes_skip(genes1, genes2, point) ==
    slice_to(genes1, point) \o slice_from(genes2, point + 1)

\* p1.genes[:point] + p2.genes[point:]
new_genes_of(genes1, genes2, point) ==
    slice_to(genes1, point) \o slice_from(genes2, point)

\* mutant: the cut may fall on either end of the gene list
crossover_points_wide(n) == 0 .. n

\* random.randint(1, len(p1.genes) - 1)
crossover_points(n) == 1 .. (n - 1)

\* mutant: a first parent that cannot be cut is copied into a new chromosome
return_copy(parent) ==
    ReturnedObject("new", 0, Chromosome("u1", parent.genes, 0), 0)

\* return p1: the object passed as first parent, not a copy
return_parent(parent) == ReturnedObject("p1", 0, parent, 0)

\* crossover(p1, p2)
crossover ==
    /\ ga_fn = "crossover"
    /\ ga_ret = Pending
    /\ IF Len(p1.genes) < 2
       THEN ga_ret' = return_parent(p1)
       ELSE \E point \in crossover_points(Len(p1.genes)), id \in UuidValues :
                ga_ret' = ReturnedObject(
                              "new", 0,
                              Chromosome(id, new_genes_of(p1.genes, p2.genes, point), 0),
                              point)
    /\ UNCHANGED <<ga_fn, population, p1, p2>>
    /\ UNCHANGED <<fitness_vars, thread_vars, ext_vars>>

NoPopulation == [generation_id |-> -1, population_count |-> 0, individuals |-> <<>>]
NoRequest == [op |-> "none", mutation_rate |-> 0, crossover_rate |-> 0]
NoOutput ==
    [status |-> "none", total_tests |-> 0, failed_tests |-> 0,
     passed_tests |-> 0, suspicious_lines |-> <<>>]

NoAnalysis == [test_results |-> <<>>, output |-> NoOutput, repeated |-> FALSE]

NoMetricCall == [fn |-> "none", n_failed |-> 0, n_passed |-> 0, total_failed |-> 0]
NoMetric == [status |-> "none", num |-> 0, den |-> 1, root |-> FALSE]
NoReport == [status |-> "none", top_suspicious_lines |-> <<>>, recommendations |-> <<>>]
NoResponse == [status_code |-> 0, analysis |-> NoOutput]

MutateIdle ==
    /\ param_types = <<>>
    /\ chromosome = NoChromosome
    /\ genes_at_call = <<>>
    /\ rate = 0
    /\ mutate_ret = "none"

EvolveIdle ==
    /\ required_inputs = <<>>
    /\ heap = <<>>
    /\ active_population = NoPopulation
    /\ ga_request = NoRequest
    /\ next_gen = <<>>
    /\ uuid_count = 0

LocalizerIdle ==
    /\ fl_test_results = <<>>
    /\ line_coverage = <<>>
    /\ fl_output = NoOutput
    /\ fl_calls = 0
    /\ fl_first = NoAnalysis

MetricIdle ==
    /\ metric_call = NoMetricCall
    /\ metric_ret = NoMetric

ReportIdle ==
    /\ report_analysis = NoOutput
    /\ report_top_n = 0
    /\ report_out = NoReport

EndpointIdle ==
    /\ test_executions = <<>>
    /\ fault_analyses = <<>>
    /\ endpoint_request = <<>>
    /\ endpoint_response = NoResponse

MoreIdle == MetricIdle /\ ReportIdle /\ EndpointIdle

ExtIdle == MutateIdle /\ EvolveIdle /\ LocalizerIdle /\ MoreIdle

FitnessIdle ==
    /\ all_branches = {}
    /\ global_covered_branches = {}
    /\ test_results = <<>>
    /\ fit_call = NoCall

GAIdle ==
    /\ ga_fn = "none"
    /\ population = <<>>
    /\ p1 = NoChromosome
    /\ p2 = NoChromosome
    /\ ga_ret = Pending

ThreadsIdle ==
    /\ serialized = TRUE
    /\ threads = <<>>
    /\ global_at_start = {}

\* the arguments of one call of a genetic operator
InitGA ==
    /\ FitnessIdle
    /\ ThreadsIdle
    /\ ExtIdle
    /\ ga_ret = Pending
    /\ \/ /\ ga_fn = "tournament_selection"
          /\ population \in Populations
          /\ p1 = NoChromosome
          /\ p2 = NoChromosome
       \/ /\ ga_fn = "crossover"
          /\ population = <<>>
          /\ p1 \in Parents("p1")
          /\ p2 \in Parents("p2")

NextGA == tournament_selection \/ crossover

(***************************************************************************)
(* calculate_fitness called from several threads on one evaluator, one     *)
(* statement at a time.                                                    *)
(***************************************************************************)
Threads == {1, 2}

NoResult == calculate_fitness(0, [branches_taken |-> {}, execution_status |-> "passed"], {}, {})

\* a call is inside calculate_fitness between its read of the global set and
\* its return
InCall(t) == threads[t].pc \in {"read", "merged"}

\* main.py runs the evaluations of one population one after the other on
\* the event loop; threads that are not serialized may take any turn
CanRun(t) == serialized => \A u \in Threads \ {t} : ~InCall(u)

\* lines 46-49: covered_branches, and new_branches against the global set as
\* it is read now
ReadNew(t) ==
    /\ threads[t].pc = "start"
    /\ CanRun(t)
    /\ threads' = [threads EXCEPT
           ![t].pc = "read",
           ![t].global_read = global_covered_branches,
           ![t].new_branches =
               new_branches_of(threads[t].execution_result.branches_taken,
                               global_covered_branches)]
    /\ UNCHANGED <<serialized, global_at_start>>
    /\ UNCHANGED <<fitness_vars, ga_vars, ext_vars>>

\* line 50: self.global_covered_branches.update(new_branches)
MergeNew(t) ==
    /\ threads[t].pc = "read"
    /\ CanRun(t)
    /\ global_covered_branches' =
           global_update(global_covered_branches, threads[t].new_branches)
    /\ threads' = [threads EXCEPT ![t].pc = "merged"]
    /\ UNCHANGED <<all_branches, test_results, fit_call>>
    /\ UNCHANGED <<serialized, global_at_start>>
    /\ UNCHANGED <<ga_vars, ext_vars>>

\* lines 52-76: the score from the locals, and the return
ReturnResult(t) ==
    /\ threads[t].pc = "merged"
    /\ CanRun(t)
    /\ threads' = [threads EXCEPT
           ![t].pc = "done",
           ![t].result = calculate_fitness(t, threads[t].execution_result,
                                           threads[t].global_read, all_branches)]
    /\ UNCHANGED <<serialized, global_at_start>>
    /\ UNCHANGED <<fitness_vars, ga_vars, ext_vars>>

\* an evaluator that earlier calls may have used, and one pending call per
\* thread
InitThreads ==
    /\ all_branches \in {_extract_all_branches(e) : e \in EdgeSets}
    /\ global_covered_branches \in SUBSET BranchIds
    /\ global_at_start = global_covered_branches
    /\ test_results = <<>>
    /\ fit_call = NoCall
    /\ GAIdle
    /\ ExtIdle
    /\ serialized \in BOOLEAN
    /\ \E outcome \in [Threads -> Outcomes] :
           threads = [t \in Threads |->
                         [pc |-> "start", execution_result |-> outcome[t],
                          global_read |-> {}, new_branches |-> {},
                          result |-> NoResult]]

NextThreads == \E t \in Threads : ReadNew(t) \/ MergeNew(t) \/ ReturnResult(t)

(***************************************************************************)
(* genetic_engine.py: generate_random_gene and mutate.  A gene is a Python *)
(* value: its runtime type and its number, a float in hundredths (every    *)
(* float gene is rounded to 2 places).                                     *)
(***************************************************************************)
Gene(type, value) == [type |-> type, value |-> value]

\* the type tags of a configuration; the last one names no known type
ParamTags == {"int", "float", "double", "bool", "char"}
\* the tag lists chromosomes are created from
ParamTypeLists ==
    {<<>>, <<"int">>, <<"bool">>, <<"float", "int">>, <<"char", "double">>,
     <<"int", "int", "int">>, <<"int", "double", "bool">>}
\* draws of random.randint(-100, 100)
IntDraws == {50}
\* draws of round(random.uniform(-100.0, 100.0), 2), in hundredths
FloatDraws == {250}
\* the rates passed to mutate, in tenths: 0.0, 0.3, 1.0
Rates == {0, 3, 10}
\* draws of random.randint(-5, 5) and random.randint(-50, 50)
SmallJitter == {-5, 0, 1}
LargeJitter == {-50, 0, 17}
\* draws of random.uniform(-5.0, 5.0) and random.uniform(-50.0, 50.0) after
\* the rounding of the sum to 2 places, in hundredths
SmallFloatJitter == {-500, 0, 1}
LargeFloatJitter == {0, 1234}

\* generate_random_gene(param_type): the values it can return
generate_random_gene(param_type) ==
    IF param_type = "int" THEN {Gene("int", v) : v \in IntDraws}
    ELSE IF param_type \in {"float", "double"}
         THEN {Gene("float", v) : v \in FloatDraws}
    ELSE IF param_type = "bool" THEN {Gene("int", v) : v \in {0, 1}}
    ELSE {Gene("int", 0)}

\* [generate_random_gene(p_type) for p_type in required_params]
RECURSIVE random_genes(_)
random_genes(params) ==
    IF params = <<>> THEN {<<>>}
    ELSE {<<g>> \o rest : g \in generate_random_gene(Head(params)),
                          rest \in random_genes(Tail(params))}

\* random.random() < rate, for a rate in tenths: the draw lies in [0, 1)
random_below(r) ==
    IF r <= 0 THEN {FALSE} ELSE IF r >= 10 THEN {TRUE} ELSE BOOLEAN

\* SPECIAL MUTATION 1: the gene lists after the first block
make_equal(genes) ==
    {genes} \cup
    (IF Len(genes) >= 2
     THEN {[genes EXCEPT ![idx[2]] = genes[idx[1]]] :
               idx \in {s \in (1..Len(genes)) \X (1..Len(genes)) : s[1] # s[2]}}
     ELSE {})

\* [0, -1, 1, -100, 100]
boundary_values == {0, -1, 1, -100, 100}

\* isinstance(val, (int, float)) and not isinstance(val, bool)
is_number(val) == val.type \in {"int", "float"}

\* the values the standard mutation can write over a gene
mutated_gene(val) ==
    IF val.type = "int"
    THEN {Gene("int", val.value + j) : j \in SmallJitter}
         \cup {Gene("int", val.value + j) : j \in LargeJitter}
         \cup {Gene("int", -val.value)}
         \cup {Gene("int", b) : b \in {0, -1, 1, val.value}}
    ELSE IF val.type = "float"
    THEN {Gene("float", val.value + j) : j \in SmallFloatJitter}
         \cup {Gene("float", val.value + j) : j \in LargeFloatJitter}
         \cup {Gene("float", b) : b \in {0, -100, 100, val.value}}
    ELSE {Gene("int", 1 - val.value)}

\* STANDARD MUTATION: the gene lists after the loop over the positions
RECURSIVE standard_mutation(_, _)
standard_mutation(genes, r) ==
    IF genes = <<>> THEN {<<>>}
    ELSE {<<g>> \o rest :
              g \in UNION {IF hit THEN mutated_gene(Head(genes))
                                  ELSE {Head(genes)} : hit \in random_below(r)},
              rest \in standard_mutation(Tail(genes), r)}

MutateReturned(genes) == [status |-> "returned", genes |-> genes]
MutateRaised(genes) == [status |-> "raised", genes |-> genes]

\* SPECIAL MUTATION 2 and what follows it, from the genes the first block left
boundary_or_standard(genes, r) ==
    {MutateReturned(g) : g \in standard_mutation(genes, r)}
    \cup
    (IF Len(genes) = 0
     THEN {MutateRaised(genes)}
     ELSE UNION {IF is_number(genes[idx])
                 THEN {MutateReturned([genes EXCEPT ![idx] = Gene("int", b)]) :
                           b \in boundary_values}
                 ELSE {MutateReturned(g) : g \in standard_mutation(genes, r)} :
                 idx \in 1..Len(genes)})

\* mutant: mutate returns at once
mutate_outcomes_none(genes, r) == {MutateReturned(genes)}

\* the ways one call mutate(chromosome, rate) can end
mutate_outcomes(genes, r) ==
    UNION {boundary_or_standard(g, r) : g \in make_equal(genes)}

\* mutate(chromosome, rate)
mutate ==
    /\ mutate_ret = "pending"
    /\ \E out \in mutate_outcomes(chromosome.genes, rate) :
           /\ chromosome' = [chromosome EXCEPT !.genes = out.genes]
           /\ mutate_ret' = out.status
    /\ UNCHANGED <<param_types, genes_at_call, rate>>
    /\ UNCHANGED <<fitness_vars, ga_vars, thread_vars, evolve_vars, fl_vars,
                 more_vars>>

\* a chromosome created from a tag list, and the rate of one call
InitMutate ==
    /\ FitnessIdle
    /\ GAIdle
    /\ ThreadsIdle
    /\ EvolveIdle
    /\ LocalizerIdle
    /\ MoreIdle
    /\ param_types \in ParamTypeLists
    /\ \E genes \in random_genes(param_types) :
           /\ chromosome = Chromosome("c", genes, 0)
           /\ genes_at_call = genes
    /\ rate \in Rates
    /\ mutate_ret = "pending"

NextMutate == mutate

(***************************************************************************)
(* main.py: the /ga/initialize and /ga/evolve endpoints on one stored      *)
(* configuration.  The endpoints are coroutines without an await, so a     *)
(* request runs to its end before the next one starts.  heap holds the     *)
(* Chromosome objects; the lists hold object identities, since evolve      *)
(* writes the objects it selected in place.                                *)
(***************************************************************************)
\* required_inputs of the stored configurations
StoredInputs == {<<>>, <<"char">>}
\* population_size of a GAConfigInput: ge=5
MinPopulationSize == 5
PopulationSizes == {MinPopulationSize}
\* draws of round(random.uniform(0.1, 0.9), 2), in hundredths
MockFitness == {50}
\* mutation_rate and crossover_rate of an EvolveInput, in tenths
EvolveInputs ==
    {[mutation_rate |-> 0, crossover_rate |-> 0],
     [mutation_rate |-> 0, crossover_rate |-> 8]}
\* the generations an evolve request starts from
StartGenerations == {0}

PopulationOutput(generation_id, individuals) ==
    [generation_id |-> generation_id,
     population_count |-> Len(individuals),
     individuals |-> individuals]

\* mutant: an empty tag list is used as it is
required_params_as_stored(inputs) == inputs

\* required_params: the stored tags, or ['int'] when there are none
required_params_of(inputs) == IF inputs = <<>> THEN <<"int">> ELSE inputs

\* the objects a list of identities refers to
deref(refs, h) == [i \in 1 .. Len(refs) |-> h[refs[i]]]

\* count of individuals created by the loop of initialize_population
RECURSIVE new_individuals(_, _, _)
new_individuals(params, count, first_id) ==
    IF count = 0 THEN {<<>>}
    ELSE {<<Chromosome(first_id, genes, 0)>> \o rest :
              genes \in random_genes(params),
              rest \in new_individuals(params, count - 1, first_id + 1)}

\* POST /ga/initialize
initialize_population ==
    /\ ga_request.op = "none"
    /\ active_population = NoPopulation
    /\ \E population_size \in PopulationSizes :
       \E individuals \in new_individuals(required_params_of(required_inputs),
                                          population_size, uuid_count + 1) :
           /\ heap' = heap \o individuals
           /\ uuid_count' = uuid_count + population_size
           /\ active_population' =
                  PopulationOutput(0, [i \in 1 .. population_size |->
                                          Len(heap) + i])
    /\ UNCHANGED <<required_inputs, ga_request, next_gen>>
    /\ UNCHANGED <<fitness_vars, ga_vars, thread_vars, mutate_vars, fl_vars,
                 more_vars>>

\* for ind in population: ind.fitness_score = calculate_fitness_mock(ind);
\* an object listed twice keeps the later draw
evaluate_mock(refs, h, draws) ==
    [r \in 1 .. Len(h) |->
        IF \E i \in 1 .. Len(refs) : refs[i] = r
        THEN [h[r] EXCEPT !.fitness_score =
                 draws[CHOOSE i \in 1 .. Len(refs) :
                           /\ refs[i] = r
                           /\ \A j \in (i + 1) .. Len(refs) : refs[j] # r]]
        ELSE h[r]]

\* one element put into a list sorted by descending fitness, behind its equals
insert_desc(sorted, r, h) ==
    LET ahead == Cardinality({i \in 1 .. Len(sorted) :
                    h[sorted[i]].fitness_score >= h[r].fitness_score})
    IN  SubSeq(sorted, 1, ahead) \o <<r>> \o SubSeq(sorted, ahead + 1, Len(sorted))

\* population.sort(key=lambda x: x.fitness_score, reverse=True): stable
sort_desc(refs, h) ==
    LET RECURSIVE desc(_)
        desc(k) == IF k = 0 THEN <<>> ELSE insert_desc(desc(k - 1), refs[k], h)
    IN  desc(Len(refs))

\* population[:2]
elite(pop) == SubSeq(pop, 1, Min2(2, Len(pop)))

\* POST /ga/evolve up to the loop: mock fitness, sort, elitism
evolve_begin ==
    /\ ga_request.op = "none"
    /\ active_population # NoPopulation
    /\ active_population.generation_id \in StartGenerations
    /\ \E data \in EvolveInputs :
           ga_request' = [op |-> "evolve", mutation_rate |-> data.mutation_rate,
                          crossover_rate |-> data.crossover_rate]
    /\ \E draws \in [1 .. Len(active_population.individuals) -> MockFitness] :
           LET evaluated == evaluate_mock(active_population.individuals, heap,
                                          draws)
               sorted_pop == sort_desc(active_population.individuals, evaluated)
           IN  /\ heap' = evaluated
               /\ active_population' =
                      [active_population EXCEPT !.individuals = sorted_pop]
               /\ next_gen' = elite(sorted_pop)
    /\ UNCHANGED <<required_inputs, uuid_count>>
    /\ UNCHANGED <<fitness_vars, ga_vars, thread_vars, mutate_vars, fl_vars,
                 more_vars>>

\* the positions of sorted_pop that tournament_selection can return
selection_winners(pop) ==
    {py_max(competitors, pop).index :
         competitors \in Samples(Len(pop), sample_size(Len(pop)))}

\* child = p1 with a new identifier: the parent object itself is renamed
keep_parent(h, r1, new_id) ==
    [heap |-> [h EXCEPT ![r1].id = new_id], child |-> r1, uuids |-> 1]

\* child = engine.crossover(p1, p2)
cross_parents(h, r1, r2, new_id) ==
    IF Len(h[r1].genes) < 2
    THEN {[heap |-> h, child |-> r1, uuids |-> 0]}
    ELSE {[heap |-> Append(h, Chromosome(new_id,
                        new_genes_of(h[r1].genes, h[r2].genes, point), 0)),
           child |-> Len(h) + 1, uuids |-> 1] :
              point \in crossover_points(Len(h[r1].genes))}

\* one pass of the while loop of evolve_population
evolve_step ==
    /\ ga_request.op = "evolve"
    /\ Len(next_gen) < Len(active_population.individuals)
    /\ LET sorted_pop == active_population.individuals
           winners == selection_winners(deref(sorted_pop, heap))
       IN  \E w1 \in winners, w2 \in winners :
           \E cross \in random_below(ga_request.crossover_rate) :
           \E made \in IF cross
                       THEN cross_parents(heap, sorted_pop[w1], sorted_pop[w2],
                                          uuid_count + 1)
                       ELSE {keep_parent(heap, sorted_pop[w1], uuid_count + 1)} :
           \E out \in mutate_outcomes(made.heap[made.child].genes,
                                      ga_request.mutation_rate) :
               /\ heap' = [made.heap EXCEPT ![made.child].genes = out.genes]
               /\ uuid_count' = uuid_count + made.uuids
               /\ IF out.status = "raised"
                  THEN /\ next_gen' = <<>>
                       /\ ga_request' = NoRequest
                  ELSE /\ next_gen' = Append(next_gen, made.child)
                       /\ UNCHANGED ga_request
    /\ UNCHANGED <<required_inputs, active_population>>
    /\ UNCHANGED <<fitness_vars, ga_vars, thread_vars, mutate_vars, fl_vars,
                 more_vars>>

\* mutant: the generation counter skips one
new_gen_id_skip(generation_id) == generation_id + 2

\* new_gen_id = current_output.generation_id + 1
new_gen_id(generation_id) == generation_id + 1

\* the end of evolve_population: the next generation is stored
evolve_store ==
    /\ ga_request.op = "evolve"
    /\ Len(next_gen) >= Len(active_population.individuals)
    /\ active_population' =
           PopulationOutput(new_gen_id(active_population.generation_id), next_gen)
    /\ ga_request' = NoRequest
    /\ next_gen' = <<>>
    /\ UNCHANGED <<required_inputs, heap, uuid_count>>
    /\ UNCHANGED <<fitness_vars, ga_vars, thread_vars, mutate_vars, fl_vars,
                 more_vars>>

\* a stored configuration and no population yet
InitEvolve ==
    /\ FitnessIdle
    /\ GAIdle
    /\ ThreadsIdle
    /\ MutateIdle
    /\ LocalizerIdle
    /\ MoreIdle
    /\ required_inputs \in StoredInputs
    /\ heap = <<>>
    /\ active_population = NoPopulation
    /\ ga_request = NoRequest
    /\ next_gen = <<>>
    /\ uuid_count = 0

NextEvolve ==
    initialize_population \/ evolve_begin \/ evolve_step \/ evolve_store

(***************************************************************************)
(* fault_localizer.py: TarantulaLocalizer.analyze on a new localizer.      *)
(* Scores are integers in ten-thousandths (10000 = 1.0).                   *)
(***************************************************************************)
\* a list passed to analyze has 0..MaxTests test results
MaxTests == 3
\* TestResult.status: main.py copies an execution status into it
TestStatus == {"passed", "failed", "error"}
\* TestResult.covered_lines: line numbers in any order, repeats allowed
CoveredLines ==
    {<<>>, <<1>>, <<2>>, <<3>>, <<1, 2>>, <<2, 1>>, <<1, 2, 3>>, <<1, 1>>}
\* TestResult, without its test_id, which analyze does not read
TestResults == [status : TestStatus, covered_lines : CoveredLines]
TestResultLists == UNION {[1 .. n -> TestResults] : n \in 0 .. MaxTests}

\* [t for t in test_results if t.status == wanted]
RECURSIVE tests_with(_, _)
tests_with(tests, wanted) ==
    IF tests = <<>> THEN <<>>
    ELSE (IF Head(tests).status = wanted THEN <<Head(tests)>> ELSE <<>>)
             \o tests_with(Tail(tests), wanted)

\* the line numbers the two nested loops over a test list visit, in order
RECURSIVE visited_lines(_)
visited_lines(tests) ==
    IF tests = <<>> THEN <<>>
    ELSE Head(tests).covered_lines \o visited_lines(Tail(tests))

\* the body of the loops: a new line gets a zero entry at the end of the
\* dict, then its counter for this kind of test goes up by one
count_line(matrix, line_num, kind) ==
    LET known == \E i \in 1 .. Len(matrix) : matrix[i].line = line_num
        with_line == IF known THEN matrix
                     ELSE Append(matrix, [line |-> line_num, passed |-> 0,
                                          failed |-> 0])
    IN  [i \in 1 .. Len(with_line) |->
            IF with_line[i].line = line_num
            THEN (IF kind = "passed"
                  THEN [with_line[i] EXCEPT !.passed = @ + 1]
                  ELSE [with_line[i] EXCEPT !.failed = @ + 1])
            ELSE with_line[i]]

RECURSIVE count_lines(_, _, _)
count_lines(matrix, line_nums, kind) ==
    IF line_nums = <<>> THEN matrix
    ELSE count_lines(count_line(matrix, Head(line_nums), kind),
                     Tail(line_nums), kind)

\* mutant: the counts of the analysis before stay in the dict
reset_coverage_kept(coverage) == coverage

\* self.line_coverage = {}
reset_coverage(coverage) == <<>>

\* _build_coverage_matrix on a localizer whose dict is coverage:
\* self.line_coverage afterwards, in insertion order
build_on(coverage, passed_tests, failed_tests) ==
    count_lines(count_lines(reset_coverage(coverage),
                            visited_lines(passed_tests), "passed"),
                visited_lines(failed_tests), "failed")

\* _build_coverage_matrix on a new localizer
_build_coverage_matrix(passed_tests, failed_tests) ==
    build_on(<<>>, passed_tests, failed_tests)

\* mutant: the share of the passed tests is scored
suspiciousness_passed(n_passed, n_failed, total_passed, total_failed) ==
    IF total_passed > 0 /\ total_failed > 0 /\ n_passed + n_failed > 0
    THEN round_half_even(10000 * n_passed * total_failed,
                         n_failed * total_passed + n_passed * total_failed)
    ELSE 0

\* mutant: the score is cut after 4 places
suspiciousness_cut(n_passed, n_failed, total_passed, total_failed) ==
    LET failed_num == IF total_failed > 0 THEN n_failed ELSE 0
        failed_den == IF total_failed > 0 THEN total_failed ELSE 1
        passed_num == IF total_passed > 0 THEN n_passed ELSE 0
        passed_den == IF total_passed > 0 THEN total_passed ELSE 1
        denominator == failed_num * passed_den + passed_num * failed_den
    IN  IF denominator > 0
        THEN FloorDiv(10000 * failed_num * passed_den, denominator)
        ELSE 0

\* round(pct_failed / (pct_failed + pct_passed), 4), a zero denominator giving
\* 0.0, with pct_failed = n_failed / total_failed and pct_passed =
\* n_passed / total_passed, each 0.0 when its total is 0
suspiciousness(n_passed, n_failed, total_passed, total_failed) ==
    LET failed_num == IF total_failed > 0 THEN n_failed ELSE 0
        failed_den == IF total_failed > 0 THEN total_failed ELSE 1
        passed_num == IF total_passed > 0 THEN n_passed ELSE 0
        passed_den == IF total_passed > 0 THEN total_passed ELSE 1
        denominator == failed_num * passed_den + passed_num * failed_den
    IN  IF denominator > 0
        THEN round_half_even(10000 * failed_num * passed_den, denominator)
        ELSE 0

SuspiciousLine(line_number, suspiciousness_score, failed_coverage, passed_coverage) ==
    [line_number |-> line_number,
     suspiciousness_score |-> suspiciousness_score,
     failed_coverage |-> failed_coverage,
     passed_coverage |-> passed_coverage]

\* _calculate_suspiciousness: one record per entry of the dict, in its order
_calculate_suspiciousness(matrix, total_passed, total_failed) ==
    [i \in 1 .. Len(matrix) |->
        SuspiciousLine(matrix[i].line,
                       suspiciousness(matrix[i].passed, matrix[i].failed,
                                      total_passed, total_failed),
                       matrix[i].failed, matrix[i].passed)]

\* mutant: a record goes ahead of the records of equal score
sort_by_score_unstable(records) ==
    LET RECURSIVE sorted(_)
        sorted(k) ==
            IF k = 0 THEN <<>>
            ELSE LET done == sorted(k - 1)
                     ahead == Cardinality({i \in 1 .. Len(done) :
                                  done[i].suspiciousness_score
                                      > records[k].suspiciousness_score})
                 IN  SubSeq(done, 1, ahead) \o <<records[k]>>
                         \o SubSeq(done, ahead + 1, Len(done))
    IN  sorted(Len(records))

\* suspicious_lines.sort(key=lambda x: x.suspiciousness_score, reverse=True):
\* a stable sort, records of equal score stay in their order
sort_by_score(records) ==
    LET RECURSIVE sorted(_)
        sorted(k) ==
            IF k = 0 THEN <<>>
            ELSE LET done == sorted(k - 1)
                     ahead == Cardinality({i \in 1 .. Len(done) :
                                  done[i].suspiciousness_score
                                      >= records[k].suspiciousness_score})
                 IN  SubSeq(done, 1, ahead) \o <<records[k]>>
                         \o SubSeq(done, ahead + 1, Len(done))
    IN  sorted(Len(records))

FaultLocalizationOutput(total_tests, failed_tests, passed_tests, suspicious_lines) ==
    [status |-> "returned",
     total_tests |-> total_tests,
     failed_tests |-> failed_tests,
     passed_tests |-> passed_tests,
     suspicious_lines |-> suspicious_lines]

\* mutant: without failures every supplied test is reported as passed
no_failures_all_passed(results, passed_tests) ==
    FaultLocalizationOutput(Len(results), 0, Len(results), <<>>)

\* the early return of analyze when no test has failed
no_failures(results, passed_tests) ==
    FaultLocalizationOutput(Len(results), 0, Len(passed_tests), <<>>)

\* TarantulaLocalizer.analyze(source_file, test_results, source_lines)
analyze ==
    /\ fl_output = NoOutput
    /\ \E results \in TestResultLists :
           LET passed_tests == tests_with(results, "passed")
               failed_tests == tests_with(results, "failed")
               matrix == _build_coverage_matrix(passed_tests, failed_tests)
           IN  /\ fl_test_results' = results
               /\ IF failed_tests = <<>>
                  THEN /\ fl_output' = no_failures(results, passed_tests)
                       /\ UNCHANGED line_coverage
                  ELSE /\ line_coverage' = matrix
                       /\ fl_output' = FaultLocalizationOutput(
                              Len(results), Len(failed_tests),
                              Len(passed_tests),
                              sort_by_score(_calculate_suspiciousness(
                                  matrix, Len(passed_tests),
                                  Len(failed_tests))))
    /\ fl_calls' = fl_calls + 1
    /\ UNCHANGED fl_first
    /\ UNCHANGED <<fitness_vars, ga_vars, thread_vars, mutate_vars, evolve_vars,
                 more_vars>>

\* TarantulaLocalizer(): __init__
InitLocalizer ==
    /\ FitnessIdle
    /\ GAIdle
    /\ ThreadsIdle
    /\ MutateIdle
    /\ EvolveIdle
    /\ MoreIdle
    /\ fl_test_results = <<>>
    /\ line_coverage = <<>>
    /\ fl_output = NoOutput
    /\ fl_calls = 0
    /\ fl_first = NoAnalysis

NextLocalizer == analyze

(***************************************************************************)
(* Several analyze calls on one TarantulaLocalizer: a first analysis, then *)
(* other analyses, then the first one again.                               *)
(***************************************************************************)
\* a list passed to a localizer in use has 0..MaxReuseTests test results
MaxReuseTests == 2
ReuseCoveredLines == {<<1>>, <<1, 2>>}
ReuseLists ==
    UNION {[1 .. n -> [status : TestStatus, covered_lines : ReuseCoveredLines]] :
               n \in 0 .. MaxReuseTests}
\* analyze calls made on one localizer
MaxAnalyses == 3

\* analyze on a localizer whose dict is coverage: the dict afterwards and
\* the analysis returned
analyze_on(coverage, results) ==
    LET passed_tests == tests_with(results, "passed")
        failed_tests == tests_with(results, "failed")
        matrix == build_on(coverage, passed_tests, failed_tests)
    IN  IF failed_tests = <<>>
        THEN [line_coverage |-> coverage,
              output |-> no_failures(results, passed_tests)]
        ELSE [line_coverage |-> matrix,
              output |-> FaultLocalizationOutput(
                  Len(results), Len(failed_tests), Len(passed_tests),
                  sort_by_score(_calculate_suspiciousness(
                      matrix, Len(passed_tests), Len(failed_tests))))]

\* the first analysis on the localizer
analyze_first ==
    /\ fl_calls = 0
    /\ \E results \in ReuseLists :
           LET done == analyze_on(line_coverage, results)
           IN  /\ fl_test_results' = results
               /\ line_coverage' = done.line_coverage
               /\ fl_output' = done.output
               /\ fl_first' = [test_results |-> results, output |-> done.output,
                               repeated |-> FALSE]
    /\ fl_calls' = 1
    /\ UNCHANGED <<fitness_vars, ga_vars, thread_vars, mutate_vars, evolve_vars,
                 more_vars>>

\* another analysis on the same localizer
analyze_other ==
    /\ fl_calls >= 1
    /\ fl_calls < MaxAnalyses - 1
    /\ ~fl_first.repeated
    /\ \E results \in ReuseLists :
           LET done == analyze_on(line_coverage, results)
           IN  /\ fl_test_results' = results
               /\ line_coverage' = done.line_coverage
               /\ fl_output' = done.output
    /\ fl_calls' = fl_calls + 1
    /\ UNCHANGED fl_first
    /\ UNCHANGED <<fitness_vars, ga_vars, thread_vars, mutate_vars, evolve_vars,
                 more_vars>>

\* the first analysis once more, with identical inputs; it ends the run
analyze_repeat ==
    /\ fl_calls >= 1
    /\ fl_calls < MaxAnalyses
    /\ ~fl_first.repeated
    /\ LET done == analyze_on(line_coverage, fl_first.test_results)
       IN  /\ fl_test_results' = fl_first.test_results
           /\ line_coverage' = done.line_coverage
           /\ fl_output' = done.output
    /\ fl_calls' = fl_calls + 1
    /\ fl_first' = [fl_first EXCEPT !.repeated = TRUE]
    /\ UNCHANGED <<fitness_vars, ga_vars, thread_vars, mutate_vars, evolve_vars,
                 more_vars>>

NextLocalizerReuse == analyze_first \/ analyze_other \/ analyze_repeat


(***************************************************************************)
(* fault_localizer.py: calculate_ochiai_score and calculate_jaccard_score. *)
(* A returned float is kept exact: num / den, or num / sqrt(den) when root *)
(* is set.                                                                 *)
(***************************************************************************)
\* the counts passed to a metric lie in 0..MaxCount
MaxCount == 3

MetricValue(num, den, root) ==
    [status |-> "returned", num |-> num, den |-> den, root |-> root]

\* 0.0
MetricZero == MetricValue(0, 1, FALSE)

\* mutant: Ochiai with an empty denominator is a full score
calculate_ochiai_score_one(n_failed, n_passed, total_failed) ==
    LET denominator == total_failed * (n_failed + n_passed)
    IN  IF denominator = 0 THEN MetricValue(1, 1, FALSE)
        ELSE MetricValue(n_failed, denominator, TRUE)

\* calculate_ochiai_score(n_failed, n_passed, total_failed)
calculate_ochiai_score(n_failed, n_passed, total_failed) ==
    LET denominator == total_failed * (n_failed + n_passed)
    IN  IF denominator = 0 THEN MetricZero
        ELSE MetricValue(n_failed, denominator, TRUE)

\* calculate_jaccard_score(n_failed, n_passed, total_failed)
calculate_jaccard_score(n_failed, n_passed, total_failed) ==
    LET denominator == total_failed + n_passed
    IN  IF denominator = 0 THEN MetricZero
        ELSE MetricValue(n_failed, denominator, FALSE)

\* the float a returned value stands for is 0.0, respectively 1.0
IsZero(value) == value.num = 0
IsOne(value) ==
    /\ value.num > 0
    /\ IF value.root THEN value.num * value.num = value.den
                     ELSE value.num = value.den

ochiai ==
    /\ metric_call.fn = "ochiai"
    /\ metric_ret = NoMetric
    /\ metric_ret' = calculate_ochiai_score(metric_call.n_failed,
                         metric_call.n_passed, metric_call.total_failed)
    /\ UNCHANGED <<metric_call, report_vars, endpoint_vars>>
    /\ UNCHANGED <<fitness_vars, ga_vars, thread_vars, mutate_vars, evolve_vars,
                   fl_vars>>

jaccard ==
    /\ metric_call.fn = "jaccard"
    /\ metric_ret = NoMetric
    /\ metric_ret' = calculate_jaccard_score(metric_call.n_failed,
                         metric_call.n_passed, metric_call.total_failed)
    /\ UNCHANGED <<metric_call, report_vars, endpoint_vars>>
    /\ UNCHANGED <<fitness_vars, ga_vars, thread_vars, mutate_vars, evolve_vars,
                   fl_vars>>

\* the arguments of one call of a metric
InitMetrics ==
    /\ FitnessIdle
    /\ GAIdle
    /\ ThreadsIdle
    /\ MutateIdle
    /\ EvolveIdle
    /\ LocalizerIdle
    /\ ReportIdle
    /\ EndpointIdle
    /\ metric_call \in [fn : {"ochiai", "jaccard"}, n_failed : 0 .. MaxCount,
                        n_passed : 0 .. MaxCount, total_failed : 0 .. MaxCount]
    /\ metric_ret = NoMetric

NextMetrics == ochiai \/ jaccard

(***************************************************************************)
(* reporter.py: FaultLocalizationReporter.generate_report on an analysis   *)
(* that analyze returned.  A recommendation string is kept as its rule and *)
(* the line number it names.                                               *)
(***************************************************************************)
\* the spectrum behind a reported analysis has 0..MaxReportTests tests
MaxReportTests == 3
ReportCoveredLines ==
    {<<>>, <<1, 2, 3>>, <<1, 6, 11>>, <<1, 3, 20>>, <<2, 4>>,
     <<1, 2, 3, 4, 5, 30>>, <<10, 2>>}
ReportSpectra ==
    UNION {[1 .. n -> [status : {"passed", "failed"},
                       covered_lines : ReportCoveredLines]] :
               n \in 0 .. MaxReportTests}
\* top_n of a ReportRequest: ge=1
TopNs == {1, 2, 5, 10}

Recommendation(rule, line_number) == [rule |-> rule, line_number |-> line_number]

\* xs[:n]
first_n(xs, n) == SubSeq(xs, 1, Min2(n, Len(xs)))

\* sorted(line_numbers)
sorted_ints(xs) ==
    LET RECURSIVE sorted(_)
        sorted(k) ==
            IF k = 0 THEN <<>>
            ELSE LET done == sorted(k - 1)
                     ahead == Cardinality({i \in 1 .. Len(done) : done[i] <= xs[k]})
                 IN  SubSeq(done, 1, ahead) \o <<xs[k]>>
                         \o SubSeq(done, ahead + 1, Len(done))
    IN  sorted(Len(xs))

\* _are_lines_clustered(line_numbers, threshold): no gap between neighbours
\* of the sorted numbers is above the threshold
_are_lines_clustered(line_numbers, threshold) ==
    IF Len(line_numbers) < 2 THEN FALSE
    ELSE LET sorted_lines == sorted_ints(line_numbers)
         IN  \A i \in 1 .. (Len(sorted_lines) - 1) :
                 sorted_lines[i + 1] - sorted_lines[i] <= threshold

\* mutant: a score of exactly 0.5 is MEDIUM
priority_of_weak(top_line) ==
    IF top_line.suspiciousness_score > 8000
    THEN Recommendation("HIGH", top_line.line_number)
    ELSE IF top_line.suspiciousness_score >= 5000
    THEN Recommendation("MEDIUM", top_line.line_number)
    ELSE Recommendation("LOW", top_line.line_number)

\* Recommendation 1: the class of the top line
priority_of(top_line) ==
    IF top_line.suspiciousness_score > 8000
    THEN Recommendation("HIGH", top_line.line_number)
    ELSE IF top_line.suspiciousness_score > 5000
    THEN Recommendation("MEDIUM", top_line.line_number)
    ELSE Recommendation("LOW", top_line.line_number)

\* Recommendation 2: lines only in failed tests
only_in_failed_part(top_suspicious) ==
    IF \E i \in 1 .. Len(top_suspicious) :
           /\ top_suspicious[i].passed_coverage = 0
           /\ top_suspicious[i].failed_coverage > 0
    THEN <<Recommendation("only_in_failed", 0)>> ELSE <<>>

\* Recommendation 3: clustered suspicious lines
clustered_part(top_suspicious) ==
    IF /\ Len(top_suspicious) >= 3
       /\ _are_lines_clustered(
              [i \in 1 .. Min2(5, Len(top_suspicious)) |->
                  top_suspicious[i].line_number], 5)
    THEN <<Recommendation("clustered", 0)>> ELSE <<>>

\* Recommendation 4: test coverage quality
few_tests_part(analysis) ==
    IF analysis.total_tests < 5
    THEN <<Recommendation("few_tests", 0)>> ELSE <<>>

\* Recommendation 5: balance of passed and failed tests
balance_part(analysis) ==
    IF analysis.passed_tests = 0 THEN <<Recommendation("no_passing", 0)>>
    ELSE IF analysis.failed_tests > analysis.passed_tests * 2
    THEN <<Recommendation("skewed", 0)>> ELSE <<>>

\* _generate_recommendations(analysis, top_suspicious)
_generate_recommendations(analysis, top_suspicious) ==
    IF top_suspicious = <<>>
    THEN <<Recommendation("add_tests", 0)>>
    ELSE <<priority_of(top_suspicious[1])>>
             \o only_in_failed_part(top_suspicious)
             \o clustered_part(top_suspicious)
             \o few_tests_part(analysis)
             \o balance_part(analysis)

\* generate_report(analysis, top_n)
generate_report ==
    /\ report_out = NoReport
    /\ report_analysis.status = "returned"
    /\ LET top_suspicious == first_n(report_analysis.suspicious_lines,
                                     report_top_n)
       IN  report_out' =
               [status |-> "returned",
                top_suspicious_lines |-> top_suspicious,
                recommendations |->
                    _generate_recommendations(report_analysis, top_suspicious)]
    /\ UNCHANGED <<report_analysis, report_top_n, metric_vars, endpoint_vars>>
    /\ UNCHANGED <<fitness_vars, ga_vars, thread_vars, mutate_vars, evolve_vars,
                   fl_vars>>

\* an analysis of a spectrum, as /report/generate finds it stored
InitReport ==
    /\ FitnessIdle
    /\ GAIdle
    /\ ThreadsIdle
    /\ MutateIdle
    /\ EvolveIdle
    /\ LocalizerIdle
    /\ MetricIdle
    /\ EndpointIdle
    /\ \E results \in ReportSpectra :
           report_analysis = analyze_on(<<>>, results).output
    /\ report_top_n \in TopNs
    /\ report_out = NoReport

NextReport == generate_report

(***************************************************************************)
(* main.py: POST /fault-localization/analyze-from-executions on the store  *)
(* of execution results that the test endpoints fill.                      *)
(***************************************************************************)
\* test ids with a stored execution, and one id that is never stored
StoredTestIds == {"t1", "t2"}
TestIds == StoredTestIds \cup {"t3"}
\* at most MaxTestIds ids in a request, at most MaxCalls requests
MaxTestIds == 2
MaxCalls == 2
GCovData(line_number, execution_count) == [line_number |-> line_number, execution_count |-> execution_count]
CoverageDataLists ==
    {<<>>, <<GCovData(1, 1)>>, <<GCovData(1, 0), GCovData(2, 3)>>,
     <<GCovData(1, 1), GCovData(2, 1)>>}
\* TestExecutionOutput, the fields analyze_from_executions reads
TestExecutionOutputs ==
    [execution_status : TestStatus, coverage_data : CoverageDataLists]
\* the test_executions dictionary
ExecutionStores ==
    UNION {[ids -> TestExecutionOutputs] : ids \in SUBSET StoredTestIds}
TestIdLists == UNION {[1 .. n -> TestIds] : n \in 0 .. MaxTestIds}

\* [cov.line_number for cov in coverage_data if cov.execution_count > 0]
covered_lines_of(coverage_data) ==
    LET executed == SelectSeq(coverage_data,
                              LAMBDA cov : cov.execution_count > 0)
    IN  [i \in 1 .. Len(executed) |-> executed[i].line_number]

\* the executions found for the test ids, in request order
RECURSIVE executions_for(_, _)
executions_for(test_ids, store) ==
    IF test_ids = <<>> THEN <<>>
    ELSE (IF Head(test_ids) \in DOMAIN store
          THEN <<store[Head(test_ids)]>> ELSE <<>>)
             \o executions_for(Tail(test_ids), store)

\* analyze_from_executions(source_file, source_code, executions)
analyze_from_executions(executions) ==
    analyze_on(<<>>,
               [i \in 1 .. Len(executions) |->
                   [status |-> executions[i].execution_status,
                    covered_lines |->
                        covered_lines_of(executions[i].coverage_data)]]).output

\* the body of the try block: what it returns or the HTTPException it raises
try_body(test_ids, store) ==
    LET executions == executions_for(test_ids, store)
    IN  IF executions = <<>>
        THEN [raised |-> TRUE, status_code |-> 404, analysis |-> NoOutput]
        ELSE [raised |-> FALSE, status_code |-> 200,
              analysis |-> analyze_from_executions(executions)]

\* except Exception as e: raise HTTPException(status_code=500, ...);
\* HTTPException is an Exception, so the handler catches the 404 as well
except_exception(outcome) ==
    IF outcome.raised
    THEN [status_code |-> 500, analysis |-> NoOutput]
    ELSE [status_code |-> outcome.status_code, analysis |-> outcome.analysis]

\* POST /fault-localization/analyze-from-executions
analyze_faults_from_executions ==
    /\ Len(fault_analyses) < MaxCalls
    /\ \E test_ids \in TestIdLists :
           LET outcome == try_body(test_ids, test_executions)
           IN  /\ endpoint_request' = test_ids
               /\ endpoint_response' = except_exception(outcome)
               /\ fault_analyses' =
                      IF outcome.raised THEN fault_analyses
                      ELSE Append(fault_analyses, outcome.analysis)
    /\ UNCHANGED <<test_executions, metric_vars, report_vars>>
    /\ UNCHANGED <<fitness_vars, ga_vars, thread_vars, mutate_vars, evolve_vars,
                   fl_vars>>

\* some executions are stored, no analysis yet
InitEndpoint ==
    /\ FitnessIdle
    /\ GAIdle
    /\ ThreadsIdle
    /\ MutateIdle
    /\ EvolveIdle
    /\ LocalizerIdle
    /\ MetricIdle
    /\ ReportIdle
    /\ test_executions \in ExecutionStores
    /\ fault_analyses = <<>>
    /\ endpoint_request = <<>>
    /\ endpoint_response = NoResponse

NextEndpoint == analyze_faults_from_executions

Init == InitFitness /\ GAIdle /\ ThreadsIdle /\ ExtIdle

Next == NextFitness

Spec == Init /\ [][Next]_vars

\* one call of a genetic operator on arguments drawn from the bounded sets
SpecGA == InitGA /\ [][NextGA]_vars

\* two calculate_fitness calls on one evaluator, serialized or not
SpecThreads == InitThreads /\ [][NextThreads]_vars

\* one call of mutate on a chromosome created from a tag list
SpecMutate == InitMutate /\ [][NextMutate]_vars

\* an initialization and the evolve requests that follow it
SpecEvolve == InitEvolve /\ [][NextEvolve]_vars

\* one analysis on a new localizer
SpecLocalizer == InitLocalizer /\ [][NextLocalizer]_vars

\* analyses on one localizer, the first of them repeated at the end
SpecLocalizerReuse == InitLocalizer /\ [][NextLocalizerReuse]_vars

\* one call of an alternative metric
SpecMetrics == InitMetrics /\ [][NextMetrics]_vars

\* one report on a stored analysis
SpecReport == InitReport /\ [][NextReport]_vars

\* requests to analyze stored executions
SpecEndpoint == InitEndpoint /\ [][NextEndpoint]_vars

(***************************************************************************)
(* Claims about the fitness evaluator.                                     *)
(***************************************************************************)
Returned == fit_call.op # "none"

ResultIndices == 1 .. Len(fit_call.results)

\* the taken-branch set of the i-th evaluated pair of the last call
TakenAt(i) == fit_call.input[i].execution_result.branches_taken

StatusAt(i) == fit_call.input[i].execution_result.execution_status

\* the global coverage set the i-th pair of the last call was evaluated against
GlobalAt(i) == fit_call.global_before \cup UNION {TakenAt(j) : j \in 1 .. (i - 1)}

\* B of the claims: the universe size, taken as 1 when the universe is empty
UniverseSize == IF Cardinality(all_branches) = 0 THEN 1 ELSE Cardinality(all_branches)

\* |C|/B + 0.2 * |C \ G|/B - (0.1 if failed), as a numerator over 10 * B
ClaimedRaw(C, G, status) ==
    10 * Cardinality(C) + 2 * Cardinality(C \ G)
        - (IF status = "failed" THEN UniverseSize ELSE 0)

\* the same clamped to [0, 1], as a numerator over 10 * B
ClaimedClamped(C, G, status) ==
    IF ClaimedRaw(C, G, status) < 0 THEN 0
    ELSE IF ClaimedRaw(C, G, status) > 10 * UniverseSize THEN 10 * UniverseSize
    ELSE ClaimedRaw(C, G, status)

\* score (in ten-thousandths) is num / (10 * B) rounded to 4 decimals
IsRounded4(score, num) ==
    LET diff == score * 10 * UniverseSize - 10000 * num
    IN  /\ 2 * diff <= 10 * UniverseSize
        /\ 2 * diff >= -(10 * UniverseSize)

\* C1: every fitness_score a call returns lies in [0, 1], whatever the
\* coverage size, the novelty, the status and the calls made before.
C1_FitnessInUnitInterval ==
    Returned =>
        \A i \in ResultIndices :
            /\ fit_call.results[i].fitness_score >= 0
            /\ fit_call.results[i].fitness_score <= 10000

\* a call on an evaluator used before whose unclamped score exceeds 1
C1_Witness ==
    /\ fit_call.op = "calculate_fitness"
    /\ fit_call.global_before # {}
    /\ ClaimedRaw(TakenAt(1), GlobalAt(1), StatusAt(1)) > 10 * UniverseSize
    /\ fit_call.results[1].fitness_score = 10000

\* a step in which the caller appends a pair to its list: no call is made
IsAppendStep == Len(test_results') = Len(test_results) + 1

\* C2: the global coverage set never shrinks; a call leaves it equal to the
\* union of the set before the call and the branches its outcomes report.
C2_GlobalCoverageGrows ==
    [][/\ global_covered_branches \subseteq global_covered_branches'
       /\ IF IsAppendStep
          THEN global_covered_branches' = global_covered_branches
          ELSE global_covered_branches' =
                   global_covered_branches
                       \cup UNION {fit_call'.input[i].execution_result.branches_taken :
                                       i \in 1 .. Len(fit_call'.input)}]_vars

\* a population call that added a branch to a non-empty global set
C2_Witness ==
    /\ fit_call.op = "evaluate_population"
    /\ fit_call.global_before # {}
    /\ fit_call.global_before # global_covered_branches
    /\ fit_call.global_before \subseteq global_covered_branches

\* C3 as claimed: the returned fitness equals the clamped sum exactly.
C3_ExactClampedSum ==
    fit_call.op = "calculate_fitness" =>
        fit_call.results[1].fitness_score * 10 * UniverseSize =
            10000 * ClaimedClamped(TakenAt(1), GlobalAt(1), StatusAt(1))

\* C3 as amended: the returned fitness equals the clamped sum of base score,
\* novelty bonus and failure penalty, rounded to 4 decimal places.
C3_RoundedClampedSum ==
    fit_call.op = "calculate_fitness" =>
        /\ IsRounded4(fit_call.results[1].fitness_score,
                      ClaimedClamped(TakenAt(1), GlobalAt(1), StatusAt(1)))
        /\ fit_call.results[1].total_branches = UniverseSize

\* a call with status "error", a partly new taken set and a score that has
\* no exact 4-decimal value
C3_Witness ==
    /\ fit_call.op = "calculate_fitness"
    /\ StatusAt(1) = "error"
    /\ TakenAt(1) \ GlobalAt(1) # {}
    /\ TakenAt(1) \cap GlobalAt(1) # {}
    /\ fit_call.results[1].fitness_score * 10 * UniverseSize #
           10000 * ClaimedClamped(TakenAt(1), GlobalAt(1), StatusAt(1))

\* the pairs of the last call that take branch b
Takers(b) == {i \in ResultIndices : b \in TakenAt(i)}

\* the pairs of the last call credited with b as a new branch
Credited(b) == {i \in ResultIndices : b \in fit_call.results[i].new_branches}

FirstOf(S) == CHOOSE i \in S : \A j \in S : i <= j

\* C4: evaluate_population returns one result per pair, in list order; a
\* branch outside the global set is credited as new to the first pair taking
\* it and to no later pair, and is in the global set for every later call.
C4_InOrderFirstTakerCredited ==
    fit_call.op = "evaluate_population" =>
        /\ Len(fit_call.results) = Len(fit_call.input)
        /\ fit_call.evaluated_count = Len(fit_call.input)
        /\ \A i \in ResultIndices :
               /\ fit_call.results[i].test_case_id = fit_call.input[i].test_case_id
               /\ fit_call.results[i].branches_covered = TakenAt(i)
               /\ IsRounded4(fit_call.results[i].fitness_score,
                             ClaimedClamped(TakenAt(i), GlobalAt(i), StatusAt(i)))
        /\ \A b \in BranchIds :
               /\ Credited(b) =
                      IF b \notin fit_call.global_before /\ Takers(b) # {}
                      THEN {FirstOf(Takers(b))}
                      ELSE {}
               /\ Takers(b) # {} => b \in global_covered_branches

\* two pairs with different outcomes take the same unseen branch: only the
\* first is credited
C4_Witness ==
    /\ fit_call.op = "evaluate_population"
    /\ Len(fit_call.input) = 2
    /\ TakenAt(1) # TakenAt(2)
    /\ \E b \in BranchIds :
           /\ b \notin fit_call.global_before
           /\ Takers(b) = {1, 2}
           /\ Credited(b) = {1}

\* Scenario D: a fresh evaluator with a 2-branch universe evaluates 5 passed
\* candidates that all cover the same single branch of it
ScenarioD ==
    /\ fit_call.op = "evaluate_population"
    /\ fit_call.global_before = {}
    /\ Cardinality(all_branches) = 2
    /\ Len(fit_call.input) = 5
    /\ \E b \in all_branches :
           \A i \in 1 .. 5 : TakenAt(i) = {b} /\ StatusAt(i) = "passed"

\* C5 as claimed: Scenario D yields best_fitness = avg_fitness = 0.5.
C5_ScenarioDHalf ==
    ScenarioD => fit_call.best_fitness = 5000 /\ fit_call.avg_fitness = 5000

\* C5 as amended: in Scenario D the first candidate earns the novelty bonus
\* (0.6) and the other four score 0.5, so best_fitness = 0.6 and
\* avg_fitness = 0.52.
C5_ScenarioDWithBonus ==
    ScenarioD =>
        /\ fit_call.results[1].fitness_score = 6000
        /\ \A i \in 2 .. 5 : fit_call.results[i].fitness_score = 5000
        /\ fit_call.best_fitness = 6000
        /\ fit_call.avg_fitness = 5200

C5_Witness == ScenarioD /\ fit_call.evaluated_count = 5

(***************************************************************************)
(* Claims about the genetic operators.                                     *)
(***************************************************************************)
SelectionReturned == ga_fn = "tournament_selection" /\ ga_ret.status # "pending"

CrossoverReturned == ga_fn = "crossover" /\ ga_ret.status # "pending"

\* k of the claims: min(3, n)
ClaimedK == IF Len(population) < 3 THEN Len(population) ELSE 3

\* the returned member beats a group of k distinct members that holds it
WinsSomeTournament(w) ==
    \E group \in SUBSET (1 .. Len(population)) :
        /\ Cardinality(group) = ClaimedK
        /\ w \in group
        /\ \A j \in group :
               population[j].fitness_score <= population[w].fitness_score

\* C7: on a non-empty population tournament_selection returns a member whose
\* fitness is the maximum among min(3, n) distinct members, so at least
\* k - 1 other members are no fitter than it; the population is unchanged.
C7_SelectionReturnsTournamentWinner ==
    /\ [](SelectionReturned /\ population # <<>> =>
            /\ ga_ret.status = "returned"
            /\ ga_ret.object = "member"
            /\ ga_ret.index \in 1 .. Len(population)
            /\ ga_ret.value = population[ga_ret.index]
            /\ WinsSomeTournament(ga_ret.index)
            /\ Cardinality({j \in 1 .. Len(population) :
                               /\ j # ga_ret.index
                               /\ population[j].fitness_score
                                      <= population[ga_ret.index].fitness_score})
                   >= ClaimedK - 1)
    /\ [][population' = population]_vars

\* a tournament of 3 out of 4 members won by a member that is not the
\* fittest of the population
C7_Witness ==
    /\ SelectionReturned
    /\ Len(population) = 4
    /\ ga_ret.status = "returned"
    /\ \E j \in 1 .. 4 :
           population[j].fitness_score > population[ga_ret.index].fitness_score

\* C8: on an empty population tournament_selection returns no chromosome:
\* it fails with an invalid-argument error (Python's ValueError).
C8_EmptyPopulationRaises ==
    SelectionReturned /\ population = <<>> =>
        /\ ga_ret.status = "raised"
        /\ ga_ret.error = "ValueError"
        /\ ga_ret.object = "none"

C8_Witness ==
    /\ SelectionReturned
    /\ population = <<>>
    /\ ga_ret.status = "raised"

\* C9: for parents of equal gene count the child of crossover has p1's gene
\* count, whatever the cut point.
C9_CrossoverKeepsGeneCount ==
    CrossoverReturned /\ Len(p1.genes) = Len(p2.genes) =>
        /\ ga_ret.status = "returned"
        /\ Len(ga_ret.value.genes) = Len(p1.genes)

\* a crossover of two 3-gene parents cut at the last point of the range
C9_Witness ==
    /\ CrossoverReturned
    /\ Len(p1.genes) = 3
    /\ Len(p2.genes) = 3
    /\ ga_ret.point = 2
    /\ Len(ga_ret.value.genes) = 3

\* C10: for parents of equal arity >= 2 crossover returns a new chromosome
\* of fitness 0 that has p1's genes before some cut in 1..arity-1 and p2's
\* genes from the cut on; the parents are not modified.
C10_CrossoverSplicesAtCut ==
    /\ [](CrossoverReturned /\ Len(p1.genes) = Len(p2.genes) /\ Len(p1.genes) >= 2 =>
            /\ ga_ret.status = "returned"
            /\ ga_ret.object = "new"
            /\ ga_ret.value.fitness_score = 0
            /\ Len(ga_ret.value.genes) = Len(p1.genes)
            /\ \E cut \in 1 .. (Len(p1.genes) - 1) :
                   \A i \in 1 .. Len(p1.genes) :
                       ga_ret.value.genes[i] =
                           IF i <= cut THEN p1.genes[i] ELSE p2.genes[i])
    /\ [][p1' = p1 /\ p2' = p2]_vars

\* parents [0,0,0] and [1,1,1] of non-zero fitness give the child [0,1,1]
C10_Witness ==
    /\ CrossoverReturned
    /\ p1.genes = <<0, 0, 0>>
    /\ p2.genes = <<1, 1, 1>>
    /\ p1.fitness_score > 0
    /\ ga_ret.value.genes = <<0, 1, 1>>
    /\ ga_ret.value.fitness_score = 0

(***************************************************************************)
(* Claim about concurrent evaluations.                                     *)
(***************************************************************************)
AllDone == \A t \in Threads : threads[t].pc = "done"

ThreadTaken(t) == threads[t].execution_result.branches_taken

\* the threads whose result counts b as a new branch
ThreadsCredited(b) == {t \in Threads : b \in threads[t].result.new_branches}

\* thread t's returned score is the one the formula gives against global set G
ScoredAgainst(t, G) ==
    IsRounded4(threads[t].result.fitness_score,
               ClaimedClamped(ThreadTaken(t), G,
                              threads[t].execution_result.execution_status))

\* both evaluations read the global set before either merged into it
BothReadBeforeMerge == \A t \in Threads : threads[t].global_read = global_at_start

\* C6: when computing new = C \ global and merging it is one atomic step per
\* evaluation, every unseen branch is credited to exactly one candidate and
\* the scores are those of one sequential order; when both evaluations read
\* the global set before either merges, both are credited with every unseen
\* branch they share and both are scored against the set of before.
C6_AtomicMergeCreditsOnce ==
    AllDone =>
        /\ serialized =>
               /\ \A b \in UNION {ThreadTaken(t) : t \in Threads} \ global_at_start :
                      Cardinality(ThreadsCredited(b)) = 1
               /\ \E t \in Threads :
                      \A u \in Threads \ {t} :
                          /\ ScoredAgainst(t, global_at_start)
                          /\ ScoredAgainst(u, global_at_start \cup ThreadTaken(t))
        /\ BothReadBeforeMerge =>
               /\ \A b \in (ThreadTaken(1) \cap ThreadTaken(2)) \ global_at_start :
                      ThreadsCredited(b) = Threads
               /\ \A t \in Threads : ScoredAgainst(t, global_at_start)

\* unserialized calls that both read first: one unseen branch is credited to
\* both, and the second score is one no sequential order gives
C6_Witness ==
    /\ AllDone
    /\ ~serialized
    /\ BothReadBeforeMerge
    /\ \E b \in BranchIds \ global_at_start : ThreadsCredited(b) = Threads
    /\ ~ScoredAgainst(1, global_at_start \cup ThreadTaken(2))
    /\ ~ScoredAgainst(2, global_at_start \cup ThreadTaken(1))

\* C11: crossover on a first parent with fewer than 2 genes raises no error
\* and returns parent 1 itself, its genes, id and fitness unchanged.
C11_ShortParentReturned ==
    /\ [](CrossoverReturned /\ Len(p1.genes) < 2 =>
            /\ ga_ret.status = "returned"
            /\ ga_ret.object = "p1"
            /\ ga_ret.value = p1)
    /\ [][p1' = p1]_vars

\* a 1-gene first parent of non-zero fitness, with a longer second parent
C11_Witness ==
    /\ CrossoverReturned
    /\ Len(p1.genes) = 1
    /\ Len(p2.genes) = 3
    /\ p1.fitness_score > 0
    /\ ga_ret.object = "p1"

\* C12: crossover on parents of different gene counts fails with an
\* invalid-argument error and produces no child.
C12_MismatchedArityRaises ==
    CrossoverReturned /\ Len(p1.genes) # Len(p2.genes) =>
        /\ ga_ret.status = "raised"
        /\ ga_ret.object = "none"

MutateDone == mutate_ret \in {"returned", "raised"}

\* the Python type generate_random_gene gives a position of this tag
TypeOfTag(tag) == IF tag \in {"float", "double"} THEN "float" ELSE "int"

\* C13: mutate leaves the gene count unchanged and keeps every position's
\* type: an integer tag's position holds an integer, a real tag's a real, and
\* a boolean tag's holds 0 or 1.
C13_MutateKeepsCountAndTypes ==
    MutateDone =>
        /\ Len(chromosome.genes) = Len(param_types)
        /\ \A i \in 1..Len(param_types) :
               /\ i <= Len(chromosome.genes) =>
                      chromosome.genes[i].type = TypeOfTag(param_types[i])
               /\ (i <= Len(chromosome.genes) /\ param_types[i] = "bool") =>
                      chromosome.genes[i].value \in {0, 1}

Stored == active_population # NoPopulation
StoredIndividuals == deref(active_population.individuals, heap)
\* the parameter count used at population creation
ParamCount == IF required_inputs = <<>> THEN 1 ELSE Len(required_inputs)

C16_GenerationAndSizeSteps ==
    /\ [](Stored =>
            /\ active_population.population_count
                   = Len(active_population.individuals)
            /\ Len(next_gen) <= Len(active_population.individuals))
    /\ [][(~Stored /\ Stored') =>
            /\ active_population'.generation_id = 0
            /\ active_population'.population_count \in PopulationSizes]_vars
    /\ [][(ga_request.op = "evolve" /\ ga_request'.op = "evolve") =>
            Len(next_gen') = Len(next_gen) + 1]_vars
    /\ [][(ga_request.op = "evolve" /\ ga_request'.op = "none") =>
            /\ Len(next_gen) = Len(active_population.individuals)
            /\ active_population'.generation_id
                   = active_population.generation_id + 1
            /\ active_population'.population_count
                   = active_population.population_count]_vars

\* generation 1 stored with the 5 individuals that were asked for
C16_Witness ==
    /\ Stored
    /\ ga_request.op = "none"
    /\ active_population.generation_id = 1
    /\ active_population.population_count = MinPopulationSize

\* C17: after initialization and any evolve steps, no two entries of the
\* stored population carry the same identifier.
C17_StoredIdsUnique ==
    (Stored /\ ga_request.op = "none") =>
        \A i, j \in 1 .. Len(StoredIndividuals) :
            i # j => StoredIndividuals[i].id # StoredIndividuals[j].id

Analyzed == fl_output.status = "returned"
Records == fl_output.suspicious_lines
\* the tests of a status whose covered lines hold a line number
Covering(status, line_num) ==
    {i \in 1 .. Len(fl_test_results) :
        /\ fl_test_results[i].status = status
        /\ \E k \in 1 .. Len(fl_test_results[i].covered_lines) :
               fl_test_results[i].covered_lines[k] = line_num}
AllLines == {1, 2, 3}
\* the position at which the counting loops first meet a line number
Discovery(line_num) ==
    LET order == visited_lines(tests_with(fl_test_results, "passed"))
                     \o visited_lines(tests_with(fl_test_results, "failed"))
    IN  CHOOSE k \in 1 .. Len(order) :
            /\ order[k] = line_num
            /\ \A j \in 1 .. (k - 1) : order[j] # line_num

\* C18: every Tarantula score lies in [0, 1]; a line covered by a failed
\* test and by no passed test scores 1.0; a line covered only by passed
\* tests scores 0.0; a line that no test covers has no record.
C18_TarantulaScoreRange ==
    Analyzed =>
        /\ \A i \in 1 .. Len(Records) :
               LET rec == Records[i]
               IN  /\ rec.suspiciousness_score >= 0
                   /\ rec.suspiciousness_score <= 10000
                   /\ (Covering("failed", rec.line_number) # {}
                       /\ Covering("passed", rec.line_number) = {})
                          => rec.suspiciousness_score = 10000
                   /\ (Covering("failed", rec.line_number) = {}
                       /\ Covering("passed", rec.line_number) # {})
                          => rec.suspiciousness_score = 0
        /\ \A line_num \in AllLines :
               (\A status \in TestStatus : Covering(status, line_num) = {})
                   => \A i \in 1 .. Len(Records) :
                          Records[i].line_number # line_num
        /\ \A line_num \in AllLines :
               Covering("failed", line_num) # {}
                   => \E i \in 1 .. Len(Records) :
                          Records[i].line_number = line_num

\* line 1 under passed tests only, line 2 under a failed test only, line 3
\* under no test
C18_Witness ==
    /\ Analyzed
    /\ Covering("passed", 1) # {} /\ Covering("failed", 1) = {}
    /\ Covering("failed", 2) # {} /\ Covering("passed", 2) = {}
    /\ \A status \in TestStatus : Covering(status, 3) = {}
    /\ Len(Records) = 2

\* C19: analyze on a list without a "failed" test raises nothing and returns
\* an empty suspicious list, failed_tests = 0, passed_tests = the number of
\* passed tests and total_tests = the number of tests supplied.
C19_NoFailuresEmptyResult ==
    /\ [][(fl_output = NoOutput
           /\ tests_with(fl_test_results', "failed") = <<>>) =>
             Analyzed']_vars
    /\ [](Analyzed /\ tests_with(fl_test_results, "failed") = <<>> =>
            /\ Records = <<>>
            /\ fl_output.failed_tests = 0
            /\ fl_output.passed_tests
                   = Cardinality({i \in 1 .. Len(fl_test_results) :
                                     fl_test_results[i].status = "passed"})
            /\ fl_output.total_tests = Len(fl_test_results))

\* a passed and an errored test, each covering lines
C19_Witness ==
    /\ Analyzed
    /\ Len(fl_test_results) = 2
    /\ fl_test_results[1].status = "passed"
    /\ fl_test_results[2].status = "error"
    /\ fl_test_results[1].covered_lines # <<>>
    /\ fl_output.passed_tests = 1

\* C20: the suspicious list is in non-increasing score order; records of
\* equal score keep the order in which their lines were met; so a line
\* covered only by failing tests comes before every line of lower score.
C20_RankedStable ==
    Analyzed =>
        \A i, j \in 1 .. Len(Records) :
            i < j =>
                /\ Records[i].suspiciousness_score
                       >= Records[j].suspiciousness_score
                /\ Records[i].suspiciousness_score
                       = Records[j].suspiciousness_score
                       => Discovery(Records[i].line_number)
                              < Discovery(Records[j].line_number)
                /\ (Covering("failed", Records[j].line_number) # {}
                    /\ Covering("passed", Records[j].line_number) = {})
                       => Records[i].suspiciousness_score = 10000

\* two lines of equal score behind a line that only a failed test covers,
\* which the counting loops met last
C20_Witness ==
    /\ Analyzed
    /\ Len(Records) = 3
    /\ Records[1].suspiciousness_score = 10000
    /\ Records[2].suspiciousness_score = Records[3].suspiciousness_score
    /\ Records[2].suspiciousness_score < 10000
    /\ Discovery(Records[1].line_number) > Discovery(Records[3].line_number)

Repeated == fl_first.repeated

\* C21: analyze called twice with identical inputs yields identical scores,
\* counts and ordering, also on one localizer with other analyses, with or
\* without failures, in between.
C21_RepeatedAnalysisIdentical ==
    Repeated => fl_output = fl_first.output

\* an analysis with two records, repeated after another analysis had run
\* on the localizer
C21_Witness ==
    /\ Repeated
    /\ fl_calls = 3
    /\ Len(fl_first.output.suspicious_lines) = 2
    /\ fl_output.suspicious_lines # <<>>

\* whether score, in ten-thousandths, is num/den rounded to 4 decimals
IsRounded4Of(score, num, den) ==
    /\ 2 * (10000 * num - score * den) <= den
    /\ 2 * (score * den - 10000 * num) <= den

MetricReturned == metric_ret.status = "returned"
\* the denominator the claim names for the metric under call
ClaimedDenominator ==
    IF metric_call.fn = "ochiai"
    THEN metric_call.total_failed * (metric_call.n_failed + metric_call.n_passed)
    ELSE metric_call.total_failed + metric_call.n_passed

\* C23: calculate_ochiai_score and calculate_jaccard_score return 0.0,
\* raising nothing, whenever their denominator is 0, and both return 1.0 for
\* n_failed = 1, n_passed = 0, total_failed = 1.
C23_MetricEdgeCases ==
    /\ [][metric_ret = NoMetric => metric_ret'.status = "returned"]_vars
    /\ [](MetricReturned =>
            /\ ClaimedDenominator = 0 => IsZero(metric_ret)
            /\ (metric_call.n_failed = 1 /\ metric_call.n_passed = 0
                /\ metric_call.total_failed = 1) => IsOne(metric_ret))

\* Ochiai returned for a line failed tests cover although none has failed
C23_Witness ==
    /\ MetricReturned
    /\ metric_call.fn = "ochiai"
    /\ metric_call.total_failed = 0
    /\ metric_call.n_failed > 0
    /\ IsZero(metric_ret)

Reported == report_out.status = "returned"
TopLines == report_out.top_suspicious_lines
Recs == report_out.recommendations
RuleCount(rule) == Cardinality({i \in 1 .. Len(Recs) : Recs[i].rule = rule})
\* the line numbers of the top 5 reported lines
Top5Numbers == {TopLines[i].line_number : i \in 1 .. Min2(5, Len(TopLines))}
Span(numbers) ==
    (CHOOSE hi \in numbers : \A n \in numbers : n <= hi)
        - (CHOOSE lo \in numbers : \A n \in numbers : lo <= n)

\* C24: with no reported line the recommendations are exactly the single
\* 'add more test cases' entry; otherwise the first entry is the one priority
\* class of the top-ranked line: HIGH above 0.8, MEDIUM above 0.5 up to 0.8,
\* LOW up to 0.5.
C24_FirstRecommendation ==
    Reported =>
        IF TopLines = <<>>
        THEN Recs = <<Recommendation("add_tests", 0)>>
        ELSE /\ Recs[1].line_number = TopLines[1].line_number
             /\ Recs[1].rule =
                    (IF TopLines[1].suspiciousness_score > 8000 THEN "HIGH"
                     ELSE IF TopLines[1].suspiciousness_score > 5000
                          THEN "MEDIUM" ELSE "LOW")
             /\ RuleCount("HIGH") + RuleCount("MEDIUM") + RuleCount("LOW") = 1
             /\ RuleCount("add_tests") = 0

\* a report whose top line scores exactly 0.5 and is LOW
C24_Witness ==
    /\ Reported
    /\ TopLines # <<>>
    /\ TopLines[1].suspiciousness_score = 5000
    /\ Recs[1] = Recommendation("LOW", TopLines[1].line_number)

\* C25: the 'clustered' recommendation is in the report exactly when the
\* line numbers of the top 5 reported lines span a range of at most 5.
C25_ClusteredIffSpanAtMost5 ==
    Reported =>
        (RuleCount("clustered") = 1
            <=> (TopLines # <<>> /\ Span(Top5Numbers) <= 5))

\* the two elites of the evolve step in progress, as objects
InEvolveLoop == ga_request.op = "evolve" /\ Len(next_gen) >= 2
EliteRefs == SubSeq(next_gen, 1, 2)

\* C26: from their selection as elites to the end of the evolve step, the two
\* highest-fitness individuals keep their genes and identifier, and the stored
\* next generation starts with them.
C26_ElitesUnaltered ==
    [][InEvolveLoop =>
          /\ \A i \in 1 .. 2 :
                 /\ heap'[EliteRefs[i]].genes = heap[EliteRefs[i]].genes
                 /\ heap'[EliteRefs[i]].id = heap[EliteRefs[i]].id
          /\ (ga_request'.op = "none" /\ active_population'.generation_id
                                            # active_population.generation_id)
                 => SubSeq(active_population'.individuals, 1, 2) = EliteRefs
      ]_vars

\* C27: in a returned analysis every record's failed_coverage is the number
\* of failed tests covering its line and its passed_coverage the number of
\* passed tests covering it, so neither is above the count of such tests.
C27_CoverageCountsTests ==
    Analyzed =>
        \A i \in 1 .. Len(Records) :
            /\ Records[i].failed_coverage
                   = Cardinality(Covering("failed", Records[i].line_number))
            /\ Records[i].passed_coverage
                   = Cardinality(Covering("passed", Records[i].line_number))
            /\ Records[i].failed_coverage <= fl_output.failed_tests
            /\ Records[i].passed_coverage <= fl_output.passed_tests

\* C29: in a returned analysis total_tests = passed_tests + failed_tests,
\* whatever statuses among "passed", "failed" and "error" the spectrum holds.
C29_TotalIsPassedPlusFailed ==
    Analyzed =>
        fl_output.total_tests = fl_output.passed_tests + fl_output.failed_tests

\* C28: a request none of whose test ids has a stored execution is answered
\* with 404 and stores no analysis.
C28_NoExecutionsGives404 ==
    [][(\A i \in 1 .. Len(endpoint_request') :
            endpoint_request'[i] \notin DOMAIN test_executions)
          => /\ endpoint_response'.status_code = 404
             /\ fault_analyses' = fault_analyses
      ]_vars

\* C30: after every calculate_fitness call the reported branches_covered is
\* a subset of the branch universe, coverage_percentage is in [0, 100]
\* (0..10000 in hundredths of a percent) and the global coverage set is a
\* subset of the universe, whatever identifiers the outcome reports.
C30_CoverageWithinUniverse ==
    fit_call.op = "calculate_fitness" =>
        /\ fit_call.results[1].branches_covered \subseteq all_branches
        /\ fit_call.results[1].coverage_percentage >= 0
        /\ fit_call.results[1].coverage_percentage <= 10000
        /\ global_covered_branches \subseteq all_branches

====
